---- MODULE Spec2Model ----
(***************************************************************************)
(* Ledger and payout settlement of the e-learning payment service.         *)
(*                                                                         *)
(* The Transaction and Payout tables are sequences (a row's id is its      *)
(* index, createdAt order is index order).  Every service call runs in a   *)
(* call slot; one action is one stretch of a handler between two awaits    *)
(* that touch the database, so handlers interleave exactly at their        *)
(* awaits.  Money is in cents.                                             *)
(***************************************************************************)
EXTENDS Integers, Sequences, FiniteSets, TLC

VARIABLES
    variant,    \* which payment service is deployed: "plain" | "connect"
    txs,        \* table Transaction
    payouts,    \* table Payout
    transfers,  \* per payout id: how often the transfer capability was invoked
    calls,      \* per call slot: the handler running in it and its locals
    response,   \* what the last step returned to its caller, if it returned
    started,    \* calls begun so far, counted where calls overlap
    refunded,   \* ids of the transactions a processRefund call reported refunded
    quote       \* the calculator's last input and what two calls returned for it

vars == <<variant, txs, payouts, transfers, calls, response, started, refunded,
          quote>>

----------------------------------------------------------------------------
(* Bounds and input domains *)

MaxPayouts == 2
MaxCalls == 5
MaxSeqCalls == 6
MaxEvenCents == 400
MaxDollars == 600

Slots == {"s1", "s2"}
Users == {"u1", "u2"}
Courses == {"c1"}
Educators == {"e1"}
StripeAccounts == {"e1"}
Amounts == {10000}
\* Amounts handed to the commission calculator, in cents: every even number
\* of cents up to 2 * MaxEvenCents (half of such an amount is a whole number
\* of cents) and every whole number of dollars up to MaxDollars.
GrossAmounts ==
    {2 * k : k \in 1 .. MaxEvenCents} \cup {100 * k : k \in 1 .. MaxDollars}
RefundAmounts == {0, 5000, 15000}
PayoutAmounts == {5000, 10000}
PaymentMethods == {"stripe", "bank_transfer"}
Actors == Educators \cup {"admin1", "mallory"}

NULL == 0
NoRef == "none"

----------------------------------------------------------------------------
(* Helpers *)

RECURSIVE Sum(_, _)
Sum(f, S) ==
    IF S = {} THEN 0
    ELSE LET x == CHOOSE y \in S : TRUE IN f[x] + Sum(f, S \ {x})

Abs(x) == IF x < 0 THEN -x ELSE x
Min(a, b) == IF a < b THEN a ELSE b
Max(a, b) == IF a > b THEN a ELSE b

\* Math.round: the nearest integer, halves towards +infinity, of n / d (d > 0).
MathRound(n, d) == (2 * n + d) \div (2 * d)

TxIds == 1 .. Len(txs)
PayoutIds == 1 .. Len(payouts)

Idle ==
    [op |-> "none", pc |-> "idle", educatorId |-> "", userId |-> "",
     courseId |-> "", amount |-> 0, id |-> NULL, isAdmin |-> FALSE,
     method |-> "", sel |-> {}, notes |-> <<>>, num |-> 0, err |-> "", status |-> ""]

NoResponse ==
    [op |-> "none", result |-> "", educatorId |-> "", id |-> NULL,
     userId |-> "", isAdmin |-> FALSE]

\* A step that ends its handler, returning res to the caller; e and id are
\* the educator and the row the call was about, userId and isAdmin the
\* caller where the handler is given one.
ReturnTo(c, op, res, e, id, userId, isAdmin) ==
    /\ calls' = [calls EXCEPT ![c] = Idle]
    /\ response' = [op |-> op, result |-> res, educatorId |-> e, id |-> id,
                    userId |-> userId, isAdmin |-> isAdmin]
    /\ refunded' = IF op = "processRefund" /\ res = "ok"
                   THEN refunded \cup {id} ELSE refunded

Return(c, op, res, e, id) == ReturnTo(c, op, res, e, id, "", FALSE)

\* A step after which the handler waits at its next await.
Goto(c, k) ==
    /\ calls' = [calls EXCEPT ![c] = k]
    /\ response' = NoResponse
    /\ refunded' = refunded

NoQuote ==
    [amount |-> 0,
     first |-> [platformCommission |-> 0, educatorEarnings |-> 0],
     second |-> [platformCommission |-> 0, educatorEarnings |-> 0]]

InFlight(op) == {c \in Slots : calls[c].op = op}

----------------------------------------------------------------------------
(* Commission *)

PLATFORM_COMMISSION_PERCENTAGE == 20

\* paymentService.processPayment: a flat percentage of the gross amount.
PlainSplit(amount) ==
    LET platformCommission == (amount * PLATFORM_COMMISSION_PERCENTAGE) \div 100
    IN  [platformCommission |-> platformCommission,
         educatorEarnings |-> amount - platformCommission]

\* A faulty variant of the calculator below: it forgets the gateway fee.
calculatePlatformCommission_NoFee(amount) ==
    LET commissionPercentage ==
            IF amount >= 50000 THEN PLATFORM_COMMISSION_PERCENTAGE - 5
            ELSE IF amount >= 20000 THEN PLATFORM_COMMISSION_PERCENTAGE - 2
            ELSE PLATFORM_COMMISSION_PERCENTAGE
        netE5 == 1000 * amount
        rounded == MathRound(netE5 * commissionPercentage, 10000000)
        educatorEarnings == MathRound(netE5 - 100000 * rounded, 100000)
        platformCommission == Min(Max(100 * rounded, 100), amount \div 2)
    IN  [platformCommission |-> platformCommission,
         educatorEarnings |-> 100 * educatorEarnings]

\* calculatePlatformCommission: tiered percentage of the amount net of the
\* gateway fee; both outputs rounded to whole dollars, the earnings taken
\* before the commission is clamped.  net (dollars) = (971 a - 30000) / 10^5.
calculatePlatformCommission(amount) ==
    LET commissionPercentage ==
            IF amount >= 50000 THEN PLATFORM_COMMISSION_PERCENTAGE - 5
            ELSE IF amount >= 20000 THEN PLATFORM_COMMISSION_PERCENTAGE - 2
            ELSE PLATFORM_COMMISSION_PERCENTAGE
        netE5 == 971 * amount - 30000
        rounded == MathRound(netE5 * commissionPercentage, 10000000)
        educatorEarnings == MathRound(netE5 - 100000 * rounded, 100000)
        platformCommission == Min(Max(100 * rounded, 100), amount \div 2)
    IN  [platformCommission |-> platformCommission,
         educatorEarnings |-> 100 * educatorEarnings]

----------------------------------------------------------------------------
(* Storage constraints *)

\* A faulty variant of the index below: no uniqueness at all.
UniqueUserCourse_None(userId, courseId) == TRUE

\* CREATE UNIQUE INDEX "Transaction_userId_courseId_key"
UniqueUserCourse(userId, courseId) ==
    \A i \in TxIds : ~(txs[i].userId = userId /\ txs[i].courseId = courseId)

\* A faulty variant of the index below: no uniqueness at all.
UniquePayoutNumber_None(n) == TRUE

\* CREATE UNIQUE INDEX "Payout_payoutNumber_key"
UniquePayoutNumber(n) == \A p \in PayoutIds : payouts[p].payoutNumber # n

\* A faulty variant of the row constructor below: the new row is tagged
\* with a payout.
NewTx_Tagged(type, status, amount, split, userId, courseId, educatorId, ref, orig) ==
    [type |-> type, status |-> status, amount |-> amount,
     platformCommission |-> split.platformCommission,
     educatorEarnings |-> split.educatorEarnings,
     userId |-> userId, courseId |-> courseId, educatorId |-> educatorId,
     stripeChargeId |-> ref, refundId |-> NULL, payoutId |-> 1,
     originalTransactionId |-> orig]

\* prisma.transaction.create: the row the services and handlers insert.
NewTx(type, status, amount, split, userId, courseId, educatorId, ref, orig) ==
    [type |-> type, status |-> status, amount |-> amount,
     platformCommission |-> split.platformCommission,
     educatorEarnings |-> split.educatorEarnings,
     userId |-> userId, courseId |-> courseId, educatorId |-> educatorId,
     stripeChargeId |-> ref, refundId |-> NULL, payoutId |-> NULL,
     originalTransactionId |-> orig]

----------------------------------------------------------------------------
(* processPayment *)

ChargeRef == IF variant = "plain" THEN "ch" ELSE "pi"

\* Up to the gateway charge.  The connect service first looks for a
\* COMPLETED payment of the same user and course and for the educator's
\* Stripe account; both services then charge, which may fail.
processPayment_charge(c) ==
    /\ calls[c].pc = "idle"
    /\ \E u \in Users, k \in Courses, e \in Educators, a \in Amounts,
          chargeOk \in BOOLEAN :
        LET dublucationCheck ==
                \E i \in TxIds : /\ txs[i].courseId = k
                                 /\ txs[i].userId = u
                                 /\ txs[i].status = "COMPLETED"
            err == IF variant = "connect" /\ e \notin StripeAccounts
                       THEN "InstructorNotPayable"
                   ELSE IF variant = "connect" /\ dublucationCheck
                       THEN "DuplicateEnrollment"
                   ELSE IF ~chargeOk THEN "GatewayFailure"
                   ELSE ""
        IN  Goto(c, [Idle EXCEPT !.op = "processPayment",
                             !.pc = IF err = "" THEN "pay_create" ELSE "pay_catch",
                             !.userId = u, !.courseId = k, !.educatorId = e,
                             !.amount = a, !.err = err])
    /\ UNCHANGED <<variant, txs, payouts, transfers>>

\* prisma.transaction.create of the COMPLETED row, then the invoice, which
\* may fail; the notifications that follow swallow their own errors.  num
\* keeps the id of the row the call created (transaction.id).
processPayment_create(c) ==
    LET k == calls[c]
        split == IF variant = "plain" THEN PlainSplit(k.amount)
                 ELSE calculatePlatformCommission(k.amount)
    IN
    /\ k.pc = "pay_create"
    /\ IF UniqueUserCourse(k.userId, k.courseId)
       THEN /\ txs' = Append(txs, NewTx("PAYMENT", "COMPLETED", k.amount, split,
                                k.userId, k.courseId, k.educatorId, ChargeRef, NULL))
            /\ \E invoiceOk \in BOOLEAN :
                 IF invoiceOk THEN Return(c, "processPayment", "ok", k.educatorId, Len(txs) + 1)
                 ELSE Goto(c, [k EXCEPT !.pc = "pay_catch", !.err = "InvoiceFailure",
                                        !.num = Len(txs) + 1])
       ELSE /\ txs' = txs
            /\ Goto(c, [k EXCEPT !.pc = "pay_catch", !.err = "DbError"])
    /\ UNCHANGED <<variant, payouts, transfers>>

\* The catch block: record a FAILED row, then rethrow wrapped.  The FAILED
\* row is subject to the same unique index; when it is rejected the raw
\* storage error leaves the catch block instead.
processPayment_catch(c) ==
    LET k == calls[c] IN
    /\ k.pc = "pay_catch"
    /\ IF UniqueUserCourse(k.userId, k.courseId)
       THEN /\ txs' = Append(txs, NewTx("PAYMENT", "FAILED", k.amount,
                                [platformCommission |-> 0, educatorEarnings |-> 0],
                                k.userId, k.courseId, k.educatorId, NoRef, NULL))
            /\ Return(c, "processPayment", k.err, k.educatorId, Len(txs) + 1)
       ELSE /\ txs' = txs
            /\ Return(c, "processPayment", "UnhandledDbError", k.educatorId, NULL)
    /\ UNCHANGED <<variant, payouts, transfers>>

----------------------------------------------------------------------------
(* processRefund *)

RefundUser(userId) == IF variant = "connect" THEN userId \o "_REFUND" ELSE userId

\* A faulty variant of the scaling below: it forgets the refund ratio.
RefundSplit_Unscaled(originalTransaction, refundAmount) ==
    [platformCommission |-> -originalTransaction.platformCommission,
     educatorEarnings |-> -originalTransaction.educatorEarnings]

\* The REFUND row's commission and earnings: the original's values times
\* refundRatio = refundAmount / originalTransaction.amount, negated.
RefundSplit(originalTransaction, refundAmount) ==
    [platformCommission |->
        -((originalTransaction.platformCommission * refundAmount)
            \div originalTransaction.amount),
     educatorEarnings |->
        -((originalTransaction.educatorEarnings * refundAmount)
            \div originalTransaction.amount)]

\* findUnique of the original and the status check; what passes is handed
\* to the gateway with refundAmount = amount || originalTransaction.amount.
processRefund_find(c) ==
    /\ calls[c].pc = "idle"
    /\ \E t \in 1 .. (Len(txs) + 1), a \in RefundAmounts :
        IF t \notin TxIds
            THEN Return(c, "processRefund", "TransactionNotFound", "", t)
        ELSE IF txs[t].status = "REFUNDED"
            THEN Return(c, "processRefund", "AlreadyRefunded", "", t)
        ELSE Goto(c, [Idle EXCEPT !.op = "processRefund", !.pc = "rf_refund",
                                  !.id = t,
                                  !.amount = IF a # 0 THEN a ELSE txs[t].amount])
    /\ UNCHANGED <<variant, txs, payouts, transfers>>

\* stripe.refunds.create: the gateway refund.  The gateway refunds only a
\* charge it issued under the deployed service's kind of reference, and no
\* more than the charge's amount; a refund it could make may still fail.
processRefund_refund(c) ==
    LET k == calls[c]
        originalTransaction == txs[k.id]
    IN
    /\ k.pc = "rf_refund"
    /\ \E gatewayOk \in BOOLEAN :
        IF /\ gatewayOk
           /\ originalTransaction.type = "PAYMENT"
           /\ originalTransaction.stripeChargeId = ChargeRef
           /\ k.amount <= originalTransaction.amount
        THEN Goto(c, [k EXCEPT !.pc = "rf_create"])
        ELSE Return(c, "processRefund", "GatewayFailure", "", k.id)
    /\ UNCHANGED <<variant, txs, payouts, transfers>>

\* prisma.transaction.create of the REFUND row.
processRefund_create(c) ==
    LET k == calls[c]
        originalTransaction == txs[k.id]
        refundAmount == k.amount
        split == RefundSplit(originalTransaction, refundAmount)
        userId == RefundUser(originalTransaction.userId)
    IN
    /\ k.pc = "rf_create"
    /\ IF UniqueUserCourse(userId, originalTransaction.courseId)
       THEN /\ txs' = Append(txs, NewTx("REFUND", "COMPLETED", refundAmount, split,
                                userId, originalTransaction.courseId,
                                originalTransaction.educatorId, "re", k.id))
            /\ Goto(c, [k EXCEPT !.pc = "rf_update", !.num = Len(txs) + 1])
       ELSE /\ txs' = txs
            /\ Return(c, "processRefund", "DbError", "", k.id)
    /\ UNCHANGED <<variant, payouts, transfers>>

\* prisma.transaction.update of the original, a storage write of its own
\* that may fail; then the invoice update, which throws when the
\* transaction has no invoice.
processRefund_update(c) ==
    LET k == calls[c] IN
    /\ k.pc = "rf_update"
    /\ \E writeOk \in BOOLEAN :
        IF writeOk
        THEN /\ txs' = [txs EXCEPT ![k.id].status = "REFUNDED",
                                   ![k.id].refundId = k.num]
             /\ \E invoiceOk \in BOOLEAN :
                  Return(c, "processRefund",
                         IF invoiceOk THEN "ok" ELSE "InvoiceFailure", "", k.id)
        ELSE /\ txs' = txs
             /\ Return(c, "processRefund", "DbError", "", k.id)
    /\ UNCHANGED <<variant, payouts, transfers>>

----------------------------------------------------------------------------
(* Webhook events of the gateway *)

RefundedAmounts == {5000, 10000}
RefundStatuses == {"succeeded", "failed"}

\* handleChargeRefunded: findFirst by the event's charge id and the status
\* check.  The event names the charge of row t (or a charge of no row); the
\* lookup finds the row only if the row stores a charge id.
handleChargeRefunded_findFirst(c) ==
    /\ calls[c].pc = "idle"
    /\ \E t \in 1 .. (Len(txs) + 1), a \in RefundedAmounts :
        LET found == t \in TxIds /\ txs[t].stripeChargeId = "ch" IN
        IF ~found
        THEN Return(c, "handleChargeRefunded", "TransactionNotFound", "", t)
        ELSE IF txs[t].status = "REFUNDED"
        THEN Return(c, "handleChargeRefunded", "ok", "", t)
        ELSE Goto(c, [Idle EXCEPT !.op = "handleChargeRefunded",
                                  !.pc = "hcr_create", !.id = t, !.amount = a])
    /\ UNCHANGED <<variant, txs, payouts, transfers>>

\* handleChargeRefunded: transaction.create of the REFUND row, which copies
\* the original's userId and courseId, and the update of the original that
\* follows a successful create; a storage error is caught and reported.
handleChargeRefunded_create(c) ==
    LET k == calls[c]
        originalTransaction == txs[k.id]
        refundAmount == k.amount
        split == [platformCommission |->
                    -((originalTransaction.platformCommission * refundAmount)
                        \div originalTransaction.amount),
                  educatorEarnings |->
                    -((originalTransaction.educatorEarnings * refundAmount)
                        \div originalTransaction.amount)]
    IN
    /\ k.pc = "hcr_create"
    /\ IF UniqueUserCourse(originalTransaction.userId, originalTransaction.courseId)
       THEN /\ txs' = [Append(txs, NewTx("REFUND", "COMPLETED", refundAmount, split,
                                originalTransaction.userId,
                                originalTransaction.courseId,
                                originalTransaction.educatorId, "re", k.id))
                          EXCEPT ![k.id].status = "REFUNDED",
                                 ![k.id].refundId = Len(txs) + 1]
            /\ Return(c, "handleChargeRefunded", "ok", "", k.id)
       ELSE /\ txs' = txs
            /\ Return(c, "handleChargeRefunded", "DbError", "", k.id)
    /\ UNCHANGED <<variant, payouts, transfers>>

\* handleRefundUpdated: findFirst of the REFUND row by the event's refund id
\* and the choice of what to write.  The event names the refund of row r
\* (or a refund of no row).
handleRefundUpdated_findFirst(c) ==
    /\ calls[c].pc = "idle"
    /\ \E r \in 1 .. (Len(txs) + 1), status \in RefundStatuses :
        LET found == /\ r \in TxIds
                     /\ txs[r].type = "REFUND"
                     /\ txs[r].stripeChargeId = "re"
        IN
        IF ~found
        THEN Return(c, "handleRefundUpdated", "TransactionNotFound", "", r)
        ELSE IF status = "succeeded" /\ txs[r].status # "COMPLETED"
        THEN Goto(c, [Idle EXCEPT !.op = "handleRefundUpdated", !.pc = "hru_mark",
                                  !.id = r, !.status = "COMPLETED"])
        ELSE IF status = "failed" /\ txs[r].status # "FAILED"
        THEN Goto(c, [Idle EXCEPT !.op = "handleRefundUpdated", !.pc = "hru_mark",
                                  !.id = r, !.status = "FAILED"])
        ELSE Return(c, "handleRefundUpdated", "ok", "", r)
    /\ UNCHANGED <<variant, txs, payouts, transfers>>

\* handleRefundUpdated: the update of the REFUND row's status.
handleRefundUpdated_mark(c) ==
    LET k == calls[c] IN
    /\ k.pc = "hru_mark"
    /\ txs' = [txs EXCEPT ![k.id].status = k.status]
    /\ IF k.status = "FAILED"
       THEN Goto(c, [k EXCEPT !.pc = "hru_revert",
                              !.num = txs[k.id].originalTransactionId])
       ELSE Return(c, "handleRefundUpdated", "ok", "", k.id)
    /\ UNCHANGED <<variant, payouts, transfers>>

\* handleRefundUpdated: after a failed refund, the update that puts the
\* original back to COMPLETED with no refundId.
handleRefundUpdated_revert(c) ==
    LET k == calls[c] IN
    /\ k.pc = "hru_revert"
    /\ txs' = [txs EXCEPT ![k.num].status = "COMPLETED", ![k.num].refundId = NULL]
    /\ Return(c, "handleRefundUpdated", "ok", "", k.id)
    /\ UNCHANGED <<variant, payouts, transfers>>

\* handlePaymentIntentSucceeded: findFirst by the event's payment intent id
\* and the status check.  The lookup finds row t only if the row stores a
\* payment intent id.
handlePaymentIntentSucceeded_findFirst(c) ==
    /\ calls[c].pc = "idle"
    /\ \E t \in 1 .. (Len(txs) + 1) :
        LET found == t \in TxIds /\ txs[t].stripeChargeId = "pi" IN
        IF ~found
        THEN Return(c, "handlePaymentIntentSucceeded", "TransactionNotFound", "", t)
        ELSE IF txs[t].status = "COMPLETED"
            THEN Return(c, "handlePaymentIntentSucceeded", "ok", "", t)
        ELSE Goto(c, [Idle EXCEPT !.op = "handlePaymentIntentSucceeded",
                                  !.pc = "pis_update", !.id = t])
    /\ UNCHANGED <<variant, txs, payouts, transfers>>

\* handlePaymentIntentSucceeded: the COMPLETED write, then the invoice
\* update, which may throw into the handler's catch.
handlePaymentIntentSucceeded_update(c) ==
    LET k == calls[c] IN
    /\ k.pc = "pis_update"
    /\ txs' = [txs EXCEPT ![k.id].status = "COMPLETED"]
    /\ \E invoiceOk \in BOOLEAN :
        Return(c, "handlePaymentIntentSucceeded",
               IF invoiceOk THEN "ok" ELSE "InvoiceFailure", "", k.id)
    /\ UNCHANGED <<variant, payouts, transfers>>

\* handleChargeSucceeded: findFirst by the event's charge id and the status
\* check.
handleChargeSucceeded_findFirst(c) ==
    /\ calls[c].pc = "idle"
    /\ \E t \in 1 .. (Len(txs) + 1) :
        LET found == t \in TxIds /\ txs[t].stripeChargeId = "ch" IN
        IF ~found
        THEN Return(c, "handleChargeSucceeded", "TransactionNotFound", "", t)
        ELSE IF txs[t].status = "COMPLETED"
            THEN Return(c, "handleChargeSucceeded", "ok", "", t)
        ELSE Goto(c, [Idle EXCEPT !.op = "handleChargeSucceeded",
                                  !.pc = "hcs_update", !.id = t])
    /\ UNCHANGED <<variant, txs, payouts, transfers>>

\* handleChargeSucceeded: the COMPLETED write.
handleChargeSucceeded_update(c) ==
    LET k == calls[c] IN
    /\ k.pc = "hcs_update"
    /\ txs' = [txs EXCEPT ![k.id].status = "COMPLETED"]
    /\ Return(c, "handleChargeSucceeded", "ok", "", k.id)
    /\ UNCHANGED <<variant, payouts, transfers>>

\* handleChargeFailed: findUnique by the event's charge id.
handleChargeFailed_findUnique(c) ==
    /\ calls[c].pc = "idle"
    /\ \E t \in 1 .. (Len(txs) + 1) :
        LET found == t \in TxIds /\ txs[t].stripeChargeId = "ch" IN
        IF ~found
        THEN Return(c, "handleChargeFailed", "TransactionNotFound", "", t)
        ELSE Goto(c, [Idle EXCEPT !.op = "handleChargeFailed",
                                  !.pc = "hcf_update", !.id = t])
    /\ UNCHANGED <<variant, txs, payouts, transfers>>

\* handleChargeFailed: the FAILED write, whatever the row's status.
handleChargeFailed_update(c) ==
    LET k == calls[c] IN
    /\ k.pc = "hcf_update"
    /\ txs' = [txs EXCEPT ![k.id].status = "FAILED"]
    /\ Return(c, "handleChargeFailed", "ok", "", k.id)
    /\ UNCHANGED <<variant, payouts, transfers>>

\* handleChargeDisputed: findUnique by the disputed charge's id.
handleChargeDisputed_findUnique(c) ==
    /\ calls[c].pc = "idle"
    /\ \E t \in 1 .. (Len(txs) + 1) :
        LET found == t \in TxIds /\ txs[t].stripeChargeId = "ch" IN
        IF ~found
        THEN Return(c, "handleChargeDisputed", "TransactionNotFound", "", t)
        ELSE Goto(c, [Idle EXCEPT !.op = "handleChargeDisputed",
                                  !.pc = "hcd_update", !.id = t])
    /\ UNCHANGED <<variant, txs, payouts, transfers>>

\* handleChargeDisputed: the DISPUTED write, whatever the row's status.
handleChargeDisputed_update(c) ==
    LET k == calls[c] IN
    /\ k.pc = "hcd_update"
    /\ txs' = [txs EXCEPT ![k.id].status = "DISPUTED"]
    /\ Return(c, "handleChargeDisputed", "ok", "", k.id)
    /\ UNCHANGED <<variant, payouts, transfers>>

----------------------------------------------------------------------------
(* Payouts *)

\* getEducatorPendingEarnings: the first raw query.  Its three aggregates
\* (pendingAmount, pendingTransactions, oldestTransaction) range over the
\* rows of its WHERE clause, PendingRows: rows of the educator
\* with payoutId NULL that are a COMPLETED PAYMENT or a REFUND with status
\* REFUNDED; payments add their earnings, such refunds subtract theirs.
\* PendingRows_Tagged is a faulty variant that forgets the payoutId.
PendingRows_Tagged(e) ==
    {i \in TxIds :
        /\ txs[i].educatorId = e
        /\ \/ txs[i].type = "PAYMENT" /\ txs[i].status = "COMPLETED"
           \/ txs[i].type = "REFUND" /\ txs[i].status = "REFUNDED"}

PendingRows(e) ==
    {i \in TxIds :
        /\ txs[i].educatorId = e
        /\ txs[i].payoutId = NULL
        /\ \/ txs[i].type = "PAYMENT" /\ txs[i].status = "COMPLETED"
           \/ txs[i].type = "REFUND" /\ txs[i].status = "REFUNDED"}

getEducatorPendingEarnings(e) ==
    LET rows == PendingRows(e)
        pay == {i \in rows : txs[i].type = "PAYMENT" /\ txs[i].status = "COMPLETED"}
        ref == {i \in rows : txs[i].type = "REFUND" /\ txs[i].status = "REFUNDED"}
    IN  Sum([i \in pay |-> txs[i].educatorEarnings], pay)
          - Sum([i \in ref |-> Abs(txs[i].educatorEarnings)], ref)

\* A faulty variant of the lookup below: it looks for a PROCESSING payout.
HasPendingPayout_Processing(e) ==
    \E p \in PayoutIds :
        payouts[p].educatorId = e /\ payouts[p].status = "PROCESSING"

HasPendingPayout(e) ==
    \E p \in PayoutIds : payouts[p].educatorId = e /\ payouts[p].status = "PENDING"

\* requestPayout, prisma.payout.findFirst({educatorId, status: "PENDING"}).
requestPayout_findFirst(c) ==
    /\ calls[c].pc = "idle"
    /\ Len(payouts) + Cardinality(InFlight("requestPayout")) < MaxPayouts
    /\ \E e \in Educators, a \in PayoutAmounts, m \in PaymentMethods :
        IF HasPendingPayout(e)
        THEN Return(c, "requestPayout", "ExistingPendingPayout", e, NULL)
        ELSE Goto(c, [Idle EXCEPT !.op = "requestPayout", !.pc = "rp_balance",
                                  !.educatorId = e, !.amount = a, !.method = m])
    /\ UNCHANGED <<variant, txs, payouts, transfers>>

\* requestPayout, the balance check.
requestPayout_balance(c) ==
    LET k == calls[c]
        pendingAmount == getEducatorPendingEarnings(k.educatorId)
    IN
    /\ k.pc = "rp_balance"
    /\ IF pendingAmount < k.amount
       THEN Return(c, "requestPayout", "InsufficientBalance", k.educatorId, NULL)
       ELSE Goto(c, [k EXCEPT !.pc = "rp_count"])
    /\ UNCHANGED <<variant, txs, payouts, transfers>>

\* toString of a non-negative integer, as its sequence of decimal digits.
RECURSIVE toString(_)
toString(n) == IF n < 10 THEN <<n>> ELSE Append(toString(n \div 10), n % 10)

\* padStart(targetLength, "0"): zeros in front up to the target length; a
\* longer string is left as it is.
RECURSIVE padStart(_, _)
padStart(str, targetLength) ==
    IF Len(str) >= targetLength THEN str
    ELSE padStart(<<0>> \o str, targetLength)

\* The sequential part of a payout number.  All calls fall in one year, so
\* the prefix PAYOUT-<year>- is the same for all and is left out.
sequentialNumber(payoutCount) == padStart(toString(payoutCount + 1), 6)

\* requestPayout, prisma.payout.count of this year's payout numbers; the
\* number is count + 1, formatted.
requestPayout_count(c) ==
    LET payoutCount == Len(payouts) IN
    /\ calls[c].pc = "rp_count"
    /\ Goto(c, [calls[c] EXCEPT !.pc = "rp_create", !.num = payoutCount + 1])
    /\ UNCHANGED <<variant, txs, payouts, transfers>>

\* requestPayout, prisma.payout.create.
requestPayout_create(c) ==
    LET k == calls[c] IN
    /\ k.pc = "rp_create"
    /\ IF UniquePayoutNumber(sequentialNumber(k.num - 1))
       THEN /\ payouts' = Append(payouts,
                    [payoutNumber |-> sequentialNumber(k.num - 1), educatorId |-> k.educatorId,
                     amount |-> k.amount, status |-> "PENDING",
                     paymentMethod |-> k.method, notes |-> <<>>])
            /\ transfers' = Append(transfers, 0)
            /\ Return(c, "requestPayout", "ok", k.educatorId, Len(payouts) + 1)
       ELSE /\ UNCHANGED <<payouts, transfers>>
            /\ Return(c, "requestPayout", "DbError", k.educatorId, NULL)
    /\ UNCHANGED <<variant, txs>>

\* processPayout, the accumulation loop over the educator's COMPLETED rows
\* with payoutId NULL, oldest first: every row visited is included, and the
\* loop stops once the running total reaches the amount.
RECURSIVE Accumulate(_, _, _, _, _)
Accumulate(e, amount, i, runningTotal, transactionsToInclude) ==
    IF i > Len(txs) THEN transactionsToInclude
    ELSE IF ~(txs[i].educatorId = e /\ txs[i].payoutId = NULL
                /\ txs[i].status = "COMPLETED")
        THEN Accumulate(e, amount, i + 1, runningTotal, transactionsToInclude)
    ELSE LET tx == txs[i]
             total == IF tx.type = "PAYMENT"
                          THEN runningTotal + tx.educatorEarnings
                      ELSE runningTotal - Abs(tx.educatorEarnings)
             incl == transactionsToInclude \cup {i}
         IN  IF total >= amount THEN incl
             ELSE Accumulate(e, amount, i + 1, total, incl)

\* A faulty variant of the guard below: it lets a COMPLETED payout through.
ProcessableStatus_Completed(status) == status \in {"PENDING", "COMPLETED"}

\* The status guard of processPayout.
ProcessableStatus(status) == status = "PENDING"

\* processPayout, prisma.payout.findUnique and the status check.
processPayout_findUnique(c) ==
    /\ calls[c].pc = "idle"
    /\ \E p \in 1 .. (Len(payouts) + 1) :
        IF p \notin PayoutIds THEN Return(c, "processPayout", "PayoutNotFound", "", p)
        ELSE IF ~ProcessableStatus(payouts[p].status)
            THEN Return(c, "processPayout", "InvalidPayoutState", "", p)
        ELSE Goto(c, [Idle EXCEPT !.op = "processPayout", !.pc = "pp_select",
                                  !.id = p, !.notes = payouts[p].notes])
    /\ UNCHANGED <<variant, txs, payouts, transfers>>

\* processPayout, prisma.transaction.findMany and the loop.
processPayout_select(c) ==
    LET k == calls[c] IN
    /\ k.pc = "pp_select"
    /\ Goto(c, [k EXCEPT !.pc = "pp_processing",
                          !.sel = Accumulate(payouts[k.id].educatorId,
                                             payouts[k.id].amount, 1, 0, {})])
    /\ UNCHANGED <<variant, txs, payouts, transfers>>

\* processPayout, the PROCESSING write.  Methods other than stripe get their
\* simulated processor result in the same stretch.
processPayout_processing(c) ==
    LET k == calls[c]
        stripe == payouts[k.id].paymentMethod = "stripe"
    IN
    /\ k.pc = "pp_processing"
    /\ payouts' = [payouts EXCEPT ![k.id].status = "PROCESSING"]
    /\ transfers' = IF stripe THEN transfers
                    ELSE [transfers EXCEPT ![k.id] = @ + 1]
    /\ Goto(c, [k EXCEPT !.pc = IF stripe THEN "pp_transfer" ELSE "pp_commit"])
    /\ UNCHANGED <<variant, txs>>

\* What the awaited transfer call can end with: its result, a definitive
\* refusal, or a timeout of the request with no answer from the gateway.
\* The last two both reject the awaited promise.
TransferOutcomes == {"succeeded", "GatewayFailure", "TransferTimeout"}

\* processPayout, stripe.payouts.create: the external transfer.  A rejected
\* call enters the catch block with its error.
processPayout_transfer(c) ==
    LET k == calls[c] IN
    /\ k.pc = "pp_transfer"
    /\ transfers' = [transfers EXCEPT ![k.id] = @ + 1]
    /\ \E outcome \in TransferOutcomes :
        IF outcome = "succeeded" THEN Goto(c, [k EXCEPT !.pc = "pp_commit"])
        ELSE Goto(c, [k EXCEPT !.pc = "pp_catch", !.err = outcome])
    /\ UNCHANGED <<variant, txs, payouts>>

\* processPayout, the $transaction: updateMany of payoutId over the collected
\* ids and the COMPLETED write.  The reads and notifications after it may
\* throw into the same catch block.
processPayout_commit(c) ==
    LET k == calls[c] IN
    /\ k.pc = "pp_commit"
    /\ txs' = [i \in TxIds |->
                IF i \in k.sel THEN [txs[i] EXCEPT !.payoutId = k.id] ELSE txs[i]]
    /\ payouts' = [payouts EXCEPT ![k.id].status = "COMPLETED"]
    /\ \E afterOk \in BOOLEAN :
        IF afterOk THEN Return(c, "processPayout", "ok", "", k.id)
        ELSE Goto(c, [k EXCEPT !.pc = "pp_catch", !.err = "StorageFailure"])
    /\ UNCHANGED <<variant, transfers>>

\* A faulty variant of the catch block below: it swallows the failure.
processPayout_catch_Swallowed(c) ==
    LET k == calls[c] IN
    /\ k.pc = "pp_catch"
    /\ payouts' = [payouts EXCEPT ![k.id].status = "FAILED",
                                  ![k.id].notes = Append(k.notes, "Failed")]
    /\ Return(c, "processPayout", "ok", "", k.id)
    /\ UNCHANGED <<variant, txs, transfers>>

\* processPayout, the catch block: the FAILED write with the failure
\* appended to the notes read at the start.
processPayout_catch(c) ==
    LET k == calls[c] IN
    /\ k.pc = "pp_catch"
    /\ payouts' = [payouts EXCEPT ![k.id].status = "FAILED",
                                  ![k.id].notes = Append(k.notes, "Failed")]
    /\ Return(c, "processPayout", "PayoutProcessingFailed", "", k.id)
    /\ UNCHANGED <<variant, txs, transfers>>

\* A faulty variant of the check below: it lets every caller through.
NotAuthorized_Never(payout, userId, isAdmin) == FALSE

\* cancelPayout, the authorization check.
NotAuthorized(payout, userId, isAdmin) ==
    ~isAdmin /\ payout.educatorId # userId

\* cancelPayout, findUnique with the status and authorization checks.
cancelPayout_findUnique(c) ==
    /\ calls[c].pc = "idle"
    /\ \E p \in 1 .. (Len(payouts) + 1), userId \in Actors, isAdmin \in BOOLEAN :
        IF p \notin PayoutIds
            THEN ReturnTo(c, "cancelPayout", "PayoutNotFound", "", p, userId, isAdmin)
        ELSE IF payouts[p].status # "PENDING"
            THEN ReturnTo(c, "cancelPayout", "InvalidPayoutState", "", p,
                          userId, isAdmin)
        ELSE IF NotAuthorized(payouts[p], userId, isAdmin)
            THEN ReturnTo(c, "cancelPayout", "Unauthorized", "", p, userId, isAdmin)
        ELSE Goto(c, [Idle EXCEPT !.op = "cancelPayout", !.pc = "cp_update",
                                  !.id = p, !.isAdmin = isAdmin,
                                  !.userId = userId,
                                  !.notes = payouts[p].notes])
    /\ UNCHANGED <<variant, txs, payouts, transfers>>

\* cancelPayout, the CANCELLED write.
cancelPayout_update(c) ==
    LET k == calls[c] IN
    /\ k.pc = "cp_update"
    /\ payouts' = [payouts EXCEPT
            ![k.id].status = "CANCELLED",
            ![k.id].notes = Append(k.notes,
                IF k.isAdmin THEN "Cancelled by admin" ELSE "Cancelled by educator")]
    /\ ReturnTo(c, "cancelPayout", "ok", "", k.id, k.userId, k.isAdmin)
    /\ UNCHANGED <<variant, txs, transfers>>

----------------------------------------------------------------------------
(* Specifications *)

Init ==
    /\ variant \in {"plain", "connect"}
    /\ txs = <<>>
    /\ payouts = <<>>
    /\ transfers = <<>>
    /\ calls = [c \in Slots |-> Idle]
    /\ response = NoResponse
    /\ started = 0
    /\ refunded = {}
    /\ quote = NoQuote

Begin(c) ==
    \/ processPayment_charge(c)
    \/ processRefund_find(c)
    \/ requestPayout_findFirst(c)
    \/ processPayout_findUnique(c)
    \/ cancelPayout_findUnique(c)
    \/ handleChargeRefunded_findFirst(c)
    \/ handleRefundUpdated_findFirst(c)
    \/ handlePaymentIntentSucceeded_findFirst(c)
    \/ handleChargeSucceeded_findFirst(c)
    \/ handleChargeFailed_findUnique(c)
    \/ handleChargeDisputed_findUnique(c)

Continue(c) ==
    \/ processPayment_create(c)
    \/ processPayment_catch(c)
    \/ processRefund_refund(c)
    \/ processRefund_create(c)
    \/ processRefund_update(c)
    \/ requestPayout_balance(c)
    \/ requestPayout_count(c)
    \/ requestPayout_create(c)
    \/ processPayout_select(c)
    \/ processPayout_processing(c)
    \/ processPayout_transfer(c)
    \/ processPayout_commit(c)
    \/ processPayout_catch(c)
    \/ cancelPayout_update(c)
    \/ handleChargeRefunded_create(c)
    \/ handleRefundUpdated_mark(c)
    \/ handleRefundUpdated_revert(c)
    \/ handlePaymentIntentSucceeded_update(c)
    \/ handleChargeSucceeded_update(c)
    \/ handleChargeFailed_update(c)
    \/ handleChargeDisputed_update(c)

\* Overlapping calls: any slot may begin a handler while the other runs,
\* up to MaxCalls calls in all.
Next ==
    \E c \in Slots :
        \/ started < MaxCalls /\ Begin(c) /\ started' = started + 1
                               /\ UNCHANGED quote
        \/ Continue(c) /\ UNCHANGED <<started, quote>>

Spec == Init /\ [][Next]_vars

\* Calls one after another, up to MaxSeqCalls of them: a single slot.
SeqNext ==
    \E c \in {"s1"} :
        \/ started < MaxSeqCalls /\ Begin(c) /\ started' = started + 1
                                  /\ UNCHANGED quote
        \/ Continue(c) /\ UNCHANGED <<started, quote>>

SeqSpec == Init /\ [][SeqNext]_vars

\* The commission calculator on its own: the tables stay empty, and each
\* step calls the calculator twice with one amount from GrossAmounts and
\* records what the two calls return.
calculatePlatformCommission_call ==
    \E amount \in GrossAmounts :
        quote' = [amount |-> amount,
                  first |-> calculatePlatformCommission(amount),
                  second |-> calculatePlatformCommission(amount)]

CalcNext ==
    /\ calculatePlatformCommission_call
    /\ UNCHANGED <<variant, txs, payouts, transfers, calls, response, started,
                   refunded>>

CalcSpec == Init /\ [][CalcNext]_vars

----------------------------------------------------------------------------
(* Ledger quantities and step shapes the properties are stated in.  The     *)
(* tables are parameters, so that a quantity can be read before and after  *)
(* a step.                                                                 *)

EarningsIn(t, S) == Sum([i \in DOMAIN t |-> t[i].educatorEarnings], S)

\* Everything the instructor ever earned: payments plus (negative) refunds.
TotalEarnings(t, e) ==
    EarningsIn(t, {i \in DOMAIN t : /\ t[i].educatorId = e
                                    /\ t[i].type \in {"PAYMENT", "REFUND"}})

\* Sum of the amounts of the instructor's COMPLETED payouts.
PaidOut(ps, e) ==
    Sum([p \in DOMAIN ps |-> ps[p].amount],
        {p \in DOMAIN ps : ps[p].educatorId = e /\ ps[p].status = "COMPLETED"})

\* Earnings of the rows tagged with payout p.
TaggedEarnings(t, p) == EarningsIn(t, {i \in DOMAIN t : t[i].payoutId = p})

\* Unsettled balance as the data model defines it: earnings of the
\* COMPLETED/REFUNDED rows that no payout has consumed.
LedgerBalance(t, e) ==
    EarningsIn(t, {i \in DOMAIN t : /\ t[i].educatorId = e
                                    /\ t[i].payoutId = NULL
                                    /\ t[i].status \in {"COMPLETED", "REFUNDED"}})

\* Unsettled balance as the balance query is specified: earnings of the
\* COMPLETED PAYMENT and REFUND rows that no payout has consumed.  It never
\* exceeds LedgerBalance.
AggregatedBalance(t, e) ==
    EarningsIn(t, {i \in DOMAIN t : /\ t[i].educatorId = e
                                    /\ t[i].payoutId = NULL
                                    /\ t[i].status = "COMPLETED"
                                    /\ t[i].type \in {"PAYMENT", "REFUND"}})

PendingPayoutsOf(ps, e) ==
    {p \in DOMAIN ps : ps[p].educatorId = e /\ ps[p].status = "PENDING"}

TerminalStatuses == {"COMPLETED", "FAILED", "CANCELLED"}

\* The step answers a call of op at once: no slot moves, a response appears.
AnsweredAtOnce(op) == calls' = calls /\ response'.op = op

\* The step takes a call of op past its first check, into slot c.
Entered(c, op) == calls[c].pc = "idle" /\ calls'[c].op = op

\* The step ends the call of op that runs in slot c.
Finished(c, op) == calls[c].op = op /\ calls'[c].pc = "idle"

----------------------------------------------------------------------------
(* Payout settlement *)

\* C1 (no double-paying): at every step in which a payout becomes COMPLETED,
\* the amounts of all COMPLETED payouts of its instructor sum to at most the
\* instructor's earnings over all PAYMENT and REFUND rows recorded so far,
\* refund rows counting negative.
C1_NoDoublePaying ==
    [][\A p \in PayoutIds :
          (payouts[p].status # "COMPLETED" /\ payouts'[p].status = "COMPLETED")
              => PaidOut(payouts', payouts[p].educatorId)
                     <= TotalEarnings(txs', payouts[p].educatorId)]_vars

\* C2 (a transaction is consumed by exactly one payout): once a row's
\* payoutId is set, no step changes it to another payout or back to null.
C2_PayoutIdImmutable ==
    [][\A i \in TxIds :
          txs[i].payoutId # NULL => txs'[i].payoutId = txs[i].payoutId]_vars

\* C3 (a COMPLETED payout is covered): after every step, the rows tagged
\* with a COMPLETED payout have earnings summing to at least its amount; and
\* a processPayout that finds the instructor's unsettled balance below the
\* payout's amount when it selects rows answers
\* InsufficientBalanceAtSettlement and does not complete the payout.
C3_Step ==
    /\ \A p \in PayoutIds :
          payouts'[p].status = "COMPLETED"
              => TaggedEarnings(txs', p) >= payouts'[p].amount
    /\ \A c \in Slots :
          LET k == calls[c] IN
          (/\ k.pc = "pp_select"
           /\ calls'[c].pc # "pp_select"
           /\ LedgerBalance(txs, payouts[k.id].educatorId) < payouts[k.id].amount)
              => /\ response'.op = "processPayout"
                 /\ response'.result = "InsufficientBalanceAtSettlement"
                 /\ payouts'[k.id].status # "COMPLETED"

C3_CompletedPayoutCovered == [][C3_Step]_vars

\* C4 (payout lifecycle): every change of a payout's status is one of
\* PENDING->PROCESSING, PENDING->CANCELLED, PROCESSING->COMPLETED,
\* PROCESSING->FAILED; in particular a payout that is COMPLETED, FAILED or
\* CANCELLED keeps its status.
AllowedPayoutTransitions ==
    { <<"PENDING", "PROCESSING">>, <<"PENDING", "CANCELLED">>,
      <<"PROCESSING", "COMPLETED">>, <<"PROCESSING", "FAILED">> }

C4_PayoutTransitions ==
    [][\A p \in PayoutIds :
          payouts'[p].status # payouts[p].status
              => <<payouts[p].status, payouts'[p].status>>
                     \in AllowedPayoutTransitions]_vars

\* C5 (a FAILED payout holds no rows): in every reachable state no row
\* carries the id of a FAILED payout, and a FAILED payout's notes hold the
\* failure reason.
C5_FailedPayoutUntagged ==
    \A p \in PayoutIds :
        payouts[p].status = "FAILED"
            => /\ \A i \in TxIds : txs[i].payoutId # p
               /\ \E n \in 1 .. Len(payouts[p].notes) :
                      payouts[p].notes[n] = "Failed"

\* C6 (one outstanding request): in every reachable state each instructor
\* has at most one payout with status PENDING.
C6_AtMostOnePending ==
    \A e \in Educators : Cardinality(PendingPayoutsOf(payouts, e)) <= 1

\* C7 (sequential requests): a requestPayout for an instructor who has a
\* PENDING payout is answered ExistingPendingPayout and leaves the Payout
\* table as it is; a requestPayout for an instructor without a PENDING
\* payout (none yet, or the earlier one CANCELLED, COMPLETED or FAILED) whose
\* amount does not exceed the unsettled balance succeeds and adds one PENDING
\* payout of that instructor and amount.
C7_Step ==
    \A e \in Educators :
        /\ PendingPayoutsOf(payouts, e) # {} =>
              /\ \A c \in Slots :
                    ~(Entered(c, "requestPayout") /\ calls'[c].educatorId = e)
              /\ (AnsweredAtOnce("requestPayout") /\ response'.educatorId = e)
                    => /\ response'.result = "ExistingPendingPayout"
                       /\ payouts' = payouts
        /\ PendingPayoutsOf(payouts, e) = {} =>
              /\ ~(AnsweredAtOnce("requestPayout") /\ response'.educatorId = e)
              /\ \A c \in Slots :
                    (/\ Finished(c, "requestPayout")
                     /\ calls[c].educatorId = e
                     /\ calls[c].amount <= AggregatedBalance(txs, e))
                        => /\ response'.result = "ok"
                           /\ Len(payouts') = Len(payouts) + 1
                           /\ SubSeq(payouts', 1, Len(payouts)) = payouts
                           /\ payouts'[Len(payouts')].status = "PENDING"
                           /\ payouts'[Len(payouts')].educatorId = e
                           /\ payouts'[Len(payouts')].amount = calls[c].amount

C7_SequentialRequests == [][C7_Step]_vars

\* C7 happens: a request has just succeeded for an instructor whose earlier
\* payout reached a terminal status.
C7_Witness ==
    /\ response.op = "requestPayout"
    /\ response.result = "ok"
    /\ Len(payouts) = 2
    /\ payouts[1].status \in TerminalStatuses
    /\ payouts[2].status = "PENDING"
    /\ payouts[2].educatorId = payouts[1].educatorId

\* C8 (no payout beyond the balance): a requestPayout that creates a payout
\* creates it with an amount of at most the instructor's unsettled balance
\* at that time, the earnings of the rows with payoutId = null; a request
\* for more is answered InsufficientBalance and leaves the Payout table as
\* it is.
C8_Step ==
    \A c \in Slots :
        Finished(c, "requestPayout") =>
            LET k == calls[c]
                balance == LedgerBalance(txs, k.educatorId)
            IN  /\ Len(payouts') > Len(payouts)
                      => payouts'[Len(payouts')].amount <= balance
                /\ k.amount > balance
                      => /\ response'.result = "InsufficientBalance"
                         /\ payouts' = payouts

C8_RequestWithinBalance == [][C8_Step]_vars

\* C9 (processPayout only from PENDING): a processPayout on a payout whose
\* status is not PENDING gets no further than its status check, is answered
\* InvalidPayoutState, and changes no row, no payout and no transfer count;
\* calls running one after another, no payout is transferred more than once.
C9_Step ==
    \A p \in PayoutIds :
        /\ payouts[p].status # "PENDING" =>
              /\ \A c \in Slots :
                    ~(Entered(c, "processPayout") /\ calls'[c].id = p)
              /\ (AnsweredAtOnce("processPayout") /\ response'.id = p)
                    => /\ response'.result = "InvalidPayoutState"
                       /\ UNCHANGED <<txs, payouts, transfers>>
        /\ transfers'[p] <= 1

C9_ProcessOnlyFromPending == [][C9_Step]_vars

\* C9 happens: processPayout was just refused on a COMPLETED payout that was
\* transferred once.
C9_Witness ==
    /\ response.op = "processPayout"
    /\ response.result = "InvalidPayoutState"
    /\ response.id \in PayoutIds
    /\ payouts[response.id].status = "COMPLETED"
    /\ transfers[response.id] = 1

----------------------------------------------------------------------------
(* Refunds *)

\* C10 (refund atomicity): in every reachable state a REFUND row that
\* references a transaction exists exactly if that transaction has status
\* REFUNDED and its refundId set.
C10_RefundAtomicity ==
    \A i \in TxIds :
        (\E r \in TxIds : /\ txs[r].type = "REFUND"
                          /\ txs[r].originalTransactionId = i)
            <=> (txs[i].status = "REFUNDED" /\ txs[i].refundId # NULL)

\* The REFUND rows that reference transaction i.
RefundsOf(t, i) ==
    {r \in DOMAIN t : t[r].type = "REFUND" /\ t[r].originalTransactionId = i}

\* C11 (one refund per transaction): in every reachable state, whatever the
\* interleaving of processRefund calls and charge.refunded events, at most
\* one REFUND row references any one transaction.  Rows are never deleted.
C11_OneRefundPerTransaction ==
    \A i \in TxIds : Cardinality(RefundsOf(txs, i)) <= 1

\* C11 happens: a transaction was refunded by one call, and a second
\* processRefund that overlapped with it has just been turned away when it
\* tried to write its own REFUND row.
C11_Witness ==
    /\ response.op = "processRefund"
    /\ response.result = "DbError"
    /\ response.id \in TxIds
    /\ txs[response.id].status = "REFUNDED"
    /\ txs[response.id].refundId \in RefundsOf(txs, response.id)

\* C12 (a refunded transaction stays refunded): calls and events running
\* one after another, once processRefund has succeeded on a transaction,
\* every later processRefund on it is answered AlreadyRefunded at its status
\* check, before any gateway refund and without writing a row, and the
\* transaction's status does not become REFUNDED a second time.
C12_Step ==
    \A i \in refunded :
        /\ \A c \in Slots :
              ~(Entered(c, "processRefund") /\ calls'[c].id = i)
        /\ (AnsweredAtOnce("processRefund") /\ response'.id = i)
              => /\ response'.result = "AlreadyRefunded"
                 /\ txs' = txs
        /\ txs[i].status # "REFUNDED" => txs'[i].status # "REFUNDED"

C12_RefundedStaysRefunded == [][C12_Step]_vars

----------------------------------------------------------------------------
(* Payments *)

CompletedPayments(t, userId, courseId) ==
    {i \in DOMAIN t : /\ t[i].type = "PAYMENT"
                      /\ t[i].status = "COMPLETED"
                      /\ t[i].userId = userId
                      /\ t[i].courseId = courseId}

\* C13 (no duplicate enrollment billing on record): in every reachable
\* state, whatever the interleaving of processPayment calls, at most one
\* COMPLETED PAYMENT row exists per payer and course.
C13_OneCompletedPayment ==
    \A u \in Users, co \in Courses :
        Cardinality(CompletedPayments(txs, u, co)) <= 1

\* C13 happens: in the service that checks for an earlier enrollment, a
\* processPayment passed that check, and its insert was then rejected
\* because an overlapping call had recorded the COMPLETED payment first.
C13_Witness ==
    /\ variant = "connect"
    /\ \E c \in Slots :
          /\ calls[c].pc = "pay_catch"
          /\ calls[c].err = "DbError"
          /\ CompletedPayments(txs, calls[c].userId, calls[c].courseId) # {}

\* C14 (second payment refused): calls running one after another, a
\* processPayment for a payer and course that already have a COMPLETED
\* payment is turned away at the duplicate check, before the gateway
\* charge; it is answered DuplicateEnrollment and writes no row, so that
\* exactly one COMPLETED row exists.
C14_Step ==
    \A c \in Slots :
        /\ (/\ Entered(c, "processPayment")
            /\ CompletedPayments(txs, calls'[c].userId, calls'[c].courseId) # {})
              => calls'[c].err = "DuplicateEnrollment"
        /\ (Finished(c, "processPayment") /\ calls[c].err = "DuplicateEnrollment")
              => /\ response'.result = "DuplicateEnrollment"
                 /\ txs' = txs
                 /\ Cardinality(CompletedPayments(txs', calls[c].userId,
                                                  calls[c].courseId)) = 1

C14_SecondPaymentRefused == [][C14_Step]_vars

----------------------------------------------------------------------------
(* Balance query *)

\* C15 (the balance query tells the ledger balance): in every reachable
\* state the pendingAmount of getEducatorPendingEarnings equals the sum of
\* the earnings of the instructor's COMPLETED or REFUNDED rows with no
\* payoutId, refund rows counting with their negative earnings.
C15_PendingAmountIsLedgerBalance ==
    \A e \in Educators : getEducatorPendingEarnings(e) = LedgerBalance(txs, e)

\* C16 (settled rows leave the balance): in every reachable state, no row
\* tagged with the id of a COMPLETED payout is among the rows from which
\* the balance query computes its results for any instructor.
C16_SettledRowsExcluded ==
    \A e \in Educators : \A i \in PendingRows(e) :
        ~(txs[i].payoutId \in PayoutIds
            /\ payouts[txs[i].payoutId].status = "COMPLETED")

\* C16 happens: a requestPayout is about to compare its amount with the
\* balance; a COMPLETED payout of the instructor holds rows that would cover
\* the amount, and the balance without them does not.
C16_Witness ==
    \E c \in Slots : \E p \in PayoutIds :
        /\ calls[c].pc = "rp_balance"
        /\ payouts[p].status = "COMPLETED"
        /\ payouts[p].educatorId = calls[c].educatorId
        /\ TaggedEarnings(txs, p) >= calls[c].amount
        /\ getEducatorPendingEarnings(calls[c].educatorId) < calls[c].amount

(***************************************************************************)
(* Allocation                                                              *)
(***************************************************************************)

\* The instructor's unsettled rows as processPayout reads them, and the rows
\* among them created no later than row m (ids ascend with createdAt).
UnsettledRows(t, e) ==
    {i \in DOMAIN t : /\ t[i].educatorId = e
                      /\ t[i].payoutId = NULL
                      /\ t[i].status = "COMPLETED"
                      /\ t[i].type \in {"PAYMENT", "REFUND"}}

OldestUpTo(U, m) == {i \in U : i <= m}

\* The set T is the shortest oldest-first prefix of U whose earnings reach
\* the amount.
ShortestCoveringPrefix(t, U, T, amount) ==
    \E m \in 0 .. Len(t) :
        /\ T = OldestUpTo(U, m)
        /\ EarningsIn(t, T) >= amount
        /\ \A n \in 0 .. Len(t) :
              OldestUpTo(U, n) # T /\ OldestUpTo(U, n) \subseteq T
                  => EarningsIn(t, OldestUpTo(U, n)) < amount

\* The step with which a processPayout call leaves its payout COMPLETED.
Completes(c) ==
    /\ calls[c].pc = "pp_commit"
    /\ payouts[calls[c].id].status # "COMPLETED"
    /\ payouts'[calls[c].id].status = "COMPLETED"

\* C17 (greedy oldest-first allocation): whenever processPayout leaves a
\* payout COMPLETED, the rows tagged with it are exactly the shortest
\* oldest-first prefix of the instructor's unsettled rows whose running
\* earnings reach the payout's amount, and every later unsettled row stays
\* untagged.
C17_Step ==
    \A c \in Slots :
        Completes(c) =>
            LET p == calls[c].id
                U == UnsettledRows(txs, payouts[p].educatorId)
                T == {i \in TxIds : txs'[i].payoutId = p}
            IN  /\ ShortestCoveringPrefix(txs, U, T, payouts[p].amount)
                /\ \A i \in U \ T : txs'[i].payoutId = NULL

C17_GreedyAllocation == [][C17_Step]_vars

(***************************************************************************)
(* Refund rows                                                             *)
(***************************************************************************)

\* Row r carries the negated share of row o that r's amount is of o's.
ScaledNegation(r, o) ==
    /\ r.platformCommission * o.amount = -(o.platformCommission * r.amount)
    /\ r.educatorEarnings * o.amount = -(o.educatorEarnings * r.amount)

\* C18 (refund rows are scaled negations): after every step, each REFUND row
\* carries the original payment's commission and earnings, negated and
\* scaled by refundAmount / original.amount; and when processRefund succeeds
\* with the whole amount of the original, the original is REFUNDED and has
\* exactly one REFUND row, whose earnings are the original's in absolute
\* value.
C18_Step ==
    /\ \A r \in DOMAIN txs' :
          txs'[r].type = "REFUND"
              => ScaledNegation(txs'[r], txs'[txs'[r].originalTransactionId])
    /\ \A c \in Slots :
          LET i == calls[c].id IN
          (/\ Finished(c, "processRefund")
           /\ response'.result = "ok"
           /\ calls[c].amount = txs[i].amount)
              => /\ txs'[i].status = "REFUNDED"
                 /\ Cardinality(RefundsOf(txs', i)) = 1
                 /\ \A r \in RefundsOf(txs', i) :
                       Abs(txs'[r].educatorEarnings) = txs'[i].educatorEarnings

WithinGross(q) ==
    q.first.platformCommission + q.first.educatorEarnings <= q.amount
AtLeastOneDollar(q) == q.first.platformCommission >= 100
AtMostHalf(q) == 2 * q.first.platformCommission <= q.amount

ReferenceSplit(amount) ==
    LET pct == IF amount >= 50000 THEN PLATFORM_COMMISSION_PERCENTAGE - 5
               ELSE IF amount >= 20000 THEN PLATFORM_COMMISSION_PERCENTAGE - 2
               ELSE PLATFORM_COMMISSION_PERCENTAGE
        netE5 == 971 * amount - 30000
        platformCommission ==
            Min(Max(100 * MathRound(netE5 * pct, 10000000), 100), amount \div 2)
    IN  [platformCommission |-> platformCommission,
         educatorEarnings |->
            100 * MathRound(netE5 - 1000 * platformCommission, 100000)]

\* C20 (agreement with the reference algorithm): for every positive gross
\* amount the calculator returns the split of the reference algorithm,
\* whose earnings are computed from the clamped commission.
C20_AgreesWithReference ==
    quote.amount > 0 => quote.first = ReferenceSplit(quote.amount)

(***************************************************************************)
(* Transfers                                                               *)
(***************************************************************************)

\* C21 (completion needs a confirmed transfer; a timeout leaves PROCESSING):
\* a payout becomes COMPLETED only in the step of a processPayout call whose
\* transfer returned a result, and a processPayout call whose transfer
\* timed out leaves its payout in PROCESSING when it ends.
C21_Step ==
    /\ \A p \in PayoutIds :
          payouts[p].status # "COMPLETED" /\ payouts'[p].status = "COMPLETED"
              => \E c \in Slots : calls[c].pc = "pp_commit" /\ calls[c].id = p
    /\ \A c \in Slots :
          Finished(c, "processPayout") /\ calls[c].err = "TransferTimeout"
              => payouts'[calls[c].id].status = "PROCESSING"

C21_TimeoutLeavesProcessing == [][C21_Step]_vars

\* C22 (a definitive transfer failure is recorded and reported): when a
\* processPayout call whose transfer failed definitively ends, its payout is
\* FAILED with the failure appended to its notes, no transaction carries the
\* payout's id, and the caller gets an error.
C22_Step ==
    \A c \in Slots :
        LET p == calls[c].id IN
        Finished(c, "processPayout") /\ calls[c].err = "GatewayFailure"
            => /\ payouts'[p].status = "FAILED"
               /\ payouts'[p].notes = Append(payouts[p].notes, "Failed")
               /\ \A i \in DOMAIN txs' : txs'[i].payoutId # p
               /\ response'.op = "processPayout"
               /\ response'.result = "PayoutProcessingFailed"

C22_TransferFailureRecorded == [][C22_Step]_vars

\* C22 happens: a processPayout call has just reported a failure after its
\* one transfer; the payout is FAILED, its notes end with the failure and
\* no transaction is tagged with it.
C22_Witness ==
    /\ response.op = "processPayout"
    /\ response.result = "PayoutProcessingFailed"
    /\ payouts[response.id].status = "FAILED"
    /\ payouts[response.id].paymentMethod = "stripe"
    /\ transfers[response.id] = 1
    /\ Len(payouts[response.id].notes) >= 1
    /\ payouts[response.id].notes[Len(payouts[response.id].notes)] = "Failed"
    /\ \A i \in TxIds : txs[i].payoutId # response.id

(***************************************************************************)
(* Disputes and terminal statuses                                          *)
(***************************************************************************)

\* C23 (disputed earnings are never settled): no step sets the payoutId of
\* a transaction that is DISPUTED when the step is taken, and no DISPUTED
\* transaction is among the rows the balance query reads.
C23_Step ==
    /\ \A i \in TxIds :
          txs[i].status = "DISPUTED" /\ txs[i].payoutId = NULL
              => txs'[i].payoutId = NULL
    /\ \A e \in Educators : \A i \in PendingRows(e) : txs[i].status # "DISPUTED"

C23_DisputedNeverSettled == [][C23_Step]_vars

\* C24 (REFUNDED and FAILED are terminal): no step changes the status of a
\* transaction that is REFUNDED or FAILED, and a transaction becomes
\* REFUNDED only from COMPLETED.
C24_Step ==
    \A i \in TxIds :
        /\ txs[i].status \in {"REFUNDED", "FAILED"}
              => txs'[i].status = txs[i].status
        /\ txs[i].status # "REFUNDED" /\ txs'[i].status = "REFUNDED"
              => txs[i].status = "COMPLETED"

C24_TerminalTransactionStatuses == [][C24_Step]_vars

(***************************************************************************)
(* Payout numbers                                                          *)
(***************************************************************************)

\* The number a sequence of decimal digits stands for.
RECURSIVE DecimalValue(_)
DecimalValue(digits) ==
    IF digits = <<>> THEN 0
    ELSE 10 * DecimalValue(SubSeq(digits, 1, Len(digits) - 1))
            + digits[Len(digits)]

\* C25 (payout numbers are unique and sequential): in every reachable state
\* no two payouts share a payoutNumber, and the k-th payout created carries
\* k written with six digits, zero-padded.
C25_PayoutNumbersSequential ==
    /\ \A p, q \in PayoutIds :
          payouts[p].payoutNumber = payouts[q].payoutNumber => p = q
    /\ \A p \in PayoutIds :
          /\ Len(payouts[p].payoutNumber) = 6
          /\ DecimalValue(payouts[p].payoutNumber) = p

\* C25 happens: two requestPayout calls overlapped and computed the same
\* number; one created the payout 000001 and the other has just been refused
\* by the store.
C25_Witness ==
    /\ response.op = "requestPayout"
    /\ response.result = "DbError"
    /\ Len(payouts) = 1
    /\ payouts[1].payoutNumber = <<0, 0, 0, 0, 0, 1>>

(***************************************************************************)
(* Ownership of payoutId                                                   *)
(***************************************************************************)

\* C26 (only processPayout writes payoutId): a step that changes the
\* payoutId of an existing transaction, or creates a transaction with a
\* payoutId, is the tagging step of a processPayout call; every other
\* handler leaves payoutId alone and creates rows without one.
C26_Step ==
    \A i \in DOMAIN txs' :
        LET written == IF i \in TxIds THEN txs'[i].payoutId # txs[i].payoutId
                       ELSE txs'[i].payoutId # NULL
        IN  written => \E c \in Slots : /\ calls[c].op = "processPayout"
                                         /\ calls[c].pc = "pp_commit"
                                         /\ calls'[c] # calls[c]

C26_OnlyProcessPayoutTags == [][C26_Step]_vars

\* C26 happens: a dispute event has just rewritten the status of a
\* transaction that a payout had consumed, and the transaction still
\* carries that payout's id.
C26_Witness ==
    /\ response.op = "handleChargeDisputed"
    /\ response.result = "ok"
    /\ txs[response.id].status = "DISPUTED"
    /\ txs[response.id].payoutId \in PayoutIds

(***************************************************************************)
(* Cancellation                                                            *)
(***************************************************************************)

\* C27 (who may cancel a PENDING payout): a cancelPayout call on a PENDING
\* payout by a caller who is neither an admin nor the payout's instructor
\* is answered Unauthorized and leaves the payouts as they are; a call by
\* the instructor or by an admin goes on, and when it ends the payout is
\* CANCELLED and its notes have one more line, naming the kind of caller.
C27_Step ==
    /\ AnsweredAtOnce("cancelPayout") /\ response'.id \in PayoutIds
          /\ payouts[response'.id].status = "PENDING"
          => /\ ~response'.isAdmin
             /\ response'.userId # payouts[response'.id].educatorId
             /\ response'.result = "Unauthorized"
             /\ payouts' = payouts
    /\ \A c \in Slots :
          /\ Entered(c, "cancelPayout")
                => /\ payouts[calls'[c].id].status = "PENDING"
                   /\ \/ calls'[c].isAdmin
                      \/ calls'[c].userId = payouts[calls'[c].id].educatorId
          /\ Finished(c, "cancelPayout")
                => LET p == calls[c].id IN
                   /\ response'.result = "ok"
                   /\ payouts'[p].status = "CANCELLED"
                   /\ payouts'[p].notes =
                        Append(payouts[p].notes,
                               IF calls[c].isAdmin THEN "Cancelled by admin"
                               ELSE "Cancelled by educator")

C27_CancelAuthorization == [][C27_Step]_vars

\* C27 happens: a caller who is neither an admin nor the instructor has
\* just been refused on a payout that is still PENDING, after an earlier
\* payout of the instructor was cancelled.
C27_Witness ==
    /\ response.op = "cancelPayout"
    /\ response.result = "Unauthorized"
    /\ response.userId = "mallory"
    /\ payouts[response.id].status = "PENDING"
    /\ \E p \in PayoutIds :
          /\ payouts[p].status = "CANCELLED"
          /\ Len(payouts[p].notes) = 1

(***************************************************************************)
(* Single transfer                                                         *)
(***************************************************************************)

\* C28 (one transfer per payout): in every reachable state the transfer
\* capability has been invoked at most once for each payout, also when
\* processPayout calls on the same payout overlap.
C28_AtMostOneTransfer == \A p \in PayoutIds : transfers[p] <= 1

(***************************************************************************)
(* Failed payments                                                         *)
(***************************************************************************)

\* C29 (a failed processPayment leaves no COMPLETED row): when a
\* processPayment call ends with an error, the row the call created, if it
\* created one, is not a COMPLETED PAYMENT; and no COMPLETED PAYMENT row
\* stands next to a FAILED PAYMENT row of the same user and course.
C29_Step ==
    /\ \A c \in Slots :
          (/\ Finished(c, "processPayment")
           /\ response'.result # "ok"
           /\ calls[c].num \in DOMAIN txs')
              => ~(/\ txs'[calls[c].num].type = "PAYMENT"
                   /\ txs'[calls[c].num].status = "COMPLETED")
    /\ \A i, j \in DOMAIN txs' :
          ~(/\ txs'[i].type = "PAYMENT" /\ txs'[i].status = "COMPLETED"
            /\ txs'[j].type = "PAYMENT" /\ txs'[j].status = "FAILED"
            /\ txs'[i].userId = txs'[j].userId
            /\ txs'[i].courseId = txs'[j].courseId)

C29_FailedPaymentLeavesNoCompletedRow == [][C29_Step]_vars

(***************************************************************************)
(* Refund amounts                                                          *)
(***************************************************************************)

\* C30 (no refund above the original): in every reachable state each REFUND
\* row's amount is at most its original's amount and its earnings, in
\* absolute value, at most the original's; and no processRefund call has
\* gone to the gateway with an amount above the original's amount.
C30_RefundWithinOriginal ==
    /\ \A r \in TxIds :
          txs[r].type = "REFUND"
              => LET o == txs[txs[r].originalTransactionId] IN
                 /\ txs[r].amount <= o.amount
                 /\ Abs(txs[r].educatorEarnings) <= o.educatorEarnings
    /\ \A c \in Slots :
          calls[c].pc = "rf_refund"
              => calls[c].amount <= txs[calls[c].id].amount

====
